---- MODULE Spec2Model ----
(***************************************************************************)
(* Model of specify_cli: the StepTracker and the template provisioning     *)
(* pipeline of `init` (src/src/specify_cli/__init__.py).                   *)
(*                                                                         *)
(* Text values.  A key and a label are opaque strings.  A detail is a      *)
(* sequence of one-character (or one-word) strings, so that Python's       *)
(* truthiness test `if detail:` and `str.strip()` are computed, not        *)
(* assumed.                                                                *)
(***************************************************************************)
EXTENDS Integers, Sequences, FiniteSets, TLC

\* ------------------------------------------------------------------ bounds

\* Longest detail text (in characters) passed to a tracker call.
MaxDetailLen == 1

\* ------------------------------------------------------------- input sets

Keys == {"fetch", "extract"}
Labels == {"Extract template"}
Whitespace == {" "}
DetailChars == Whitespace \cup {"x"}
\* every text of at most MaxDetailLen characters: empty, blank, plain, padded
Details == UNION {[1..n -> DetailChars] : n \in 0..MaxDetailLen}
Statuses == {"pending", "running", "done", "error", "skipped"}
NoCb == "None"
Callbacks == {"cb"}
Title == "Initialize Specify Project"

VARIABLES
    steps,        \* StepTracker.steps: sequence of [key, label, status, detail]
    refresh_cb,   \* StepTracker._refresh_cb
    tree,         \* what the last tracker call returned: a Tree (render) or NoTree
    last,         \* the last tracker call: its arguments and how it ended
    cbSeen,       \* the step lists the refresh callback saw during the last call
    inserted,     \* history: keys in the order of their first insertion
    pc,           \* init: the position of the run in init / download_and_extract_template
    here,         \* init: --here (is_current_dir)
    no_git,       \* init: --no-git
    git_installed,\* whether a git executable is on the PATH
    exc,          \* the exception that is propagating ("none": none)
    zipExists,    \* whether the downloaded archive file exists
    projExists,   \* whether project_path exists
    stageExists,  \* whether the TemporaryDirectory of the --here branch exists
    moveExists,   \* whether <project name>_temp (temp_move_dir) exists
    singleRoot,   \* whether the unpacked archive is one top-level directory
    live,         \* the tree the Live display shows
    printed,      \* the final static tree printed on the console, or NoTree
    exitCode,     \* the exit code of init ("running" until it ends)
    phaseLog,     \* history: the phases in the order their work was done
    firstChange,  \* history: step keys in the order of their first status change
    in_repo,      \* whether project_path lies inside a git work tree
    parentExisted,\* whether the parent of project_path existed before the run
    parentExists, \* whether the parent of project_path exists
    gitInits,     \* history: how many times init_git_repo was called
    failLog,      \* history: the operations of the run that failed
    zipCreated,   \* history: whether the run created the archive file
    assets,       \* the names of release_data["assets"], in list order
    asset,        \* the index in assets of the asset the run resolved (0: none)
    cause,        \* history: what the first failing operation of a phase raised
    foreign,      \* history: the destination was created by another process
    project_name, \* init: whether a project name is given
    ai_option,    \* init: --ai: an assistant, or NotGiven
    response,     \* init: the answer to typer.confirm("Do you want to continue?")
    console,      \* what init printed on the console besides the tree
    archive,      \* the tree the archive unpacks to
    dest,         \* the content of project_path
    destBefore,   \* the content of project_path before the run
    stage,        \* the content of the TemporaryDirectory of the --here branch
    moved,        \* the content of <project name>_temp
    mergeTodo     \* the items the copy loop of the --here branch has yet to visit

trackerVars == <<steps, refresh_cb, tree, last, cbSeen, inserted>>
initVars == <<pc, here, no_git, git_installed, exc, zipExists, projExists, stageExists,
              moveExists, singleRoot, live, printed, exitCode, phaseLog, firstChange,
              in_repo, parentExisted, parentExists, gitInits, failLog, zipCreated, console,
              assets, asset, cause, foreign, project_name, ai_option, response, archive, dest, destBefore, stage, moved, mergeTodo>>
vars == <<trackerVars, initVars>>

\* ----------------------------------------------------------------- helpers

Range(s) == {s[i] : i \in DOMAIN s}
KeySeq(s) == [i \in DOMAIN s |-> s[i].key]
KeySet(s) == {s[i].key : i \in DOMAIN s}
\* index of the first step with this key (the one the for loop finds)
FirstIndex(s, key) == CHOOSE i \in DOMAIN s : s[i].key = key /\ \A j \in 1..(i-1) : s[j].key # key
StepOf(s, key) == s[FirstIndex(s, key)]

\* -------------------------------------------------------------- StepTracker

\* StepTracker.__init__
TrackerInit ==
    /\ steps = <<>>
    /\ refresh_cb = NoCb

\* add without the membership test
add_unchecked(s, key, label) ==
    LET s2 == Append(s, [key |-> key, label |-> label, status |-> "pending", detail |-> <<>>])
    IN  [steps |-> s2, refreshAt |-> <<s2>>]

\* add that re-initialises the step of an existing key
add_resets(s, key, label) ==
    LET new == [key |-> key, label |-> label, status |-> "pending", detail |-> <<>>]
        s2 == IF key \in KeySet(s) THEN [s EXCEPT ![FirstIndex(s, key)] = new] ELSE Append(s, new)
    IN  [steps |-> s2, refreshAt |-> IF key \in KeySet(s) THEN <<>> ELSE <<s2>>]

\* add that refreshes whether or not it inserted
add_refreshes_always(s, key, label) ==
    LET s2 == IF key \in KeySet(s) THEN s
              ELSE Append(s, [key |-> key, label |-> label, status |-> "pending", detail |-> <<>>])
    IN  [steps |-> s2, refreshAt |-> <<s2>>]

\* StepTracker.add: the new step list and the step lists _maybe_refresh is called on
add(s, key, label) ==
    IF key \notin KeySet(s)
    THEN LET s2 == Append(s, [key |-> key, label |-> label, status |-> "pending", detail |-> <<>>])
         IN  [steps |-> s2, refreshAt |-> <<s2>>]
    ELSE [steps |-> s, refreshAt |-> <<>>]

\* the order of statuses in StepTracker.status_order
status_order(status) ==
    CASE status = "pending" -> 0
      [] status = "running" -> 1
      [] status = "done" -> 2
      [] status = "error" -> 3
      [] status = "skipped" -> 4

\* _update that moves the updated step to the end of the list
_update_moves(s, key, status, detail) ==
    IF key \in KeySet(s)
    THEN LET i == FirstIndex(s, key)
             upd == [s[i] EXCEPT !.status = status,
                                 !.detail = IF detail # <<>> THEN detail ELSE @]
             s2 == Append(SubSeq(s, 1, i - 1) \o SubSeq(s, i + 1, Len(s)), upd)
         IN  [steps |-> s2, refreshAt |-> <<s2>>]
    ELSE LET s2 == Append(s, [key |-> key, label |-> key, status |-> status, detail |-> detail])
         IN  [steps |-> s2, refreshAt |-> <<s2>>]

\* _update that ignores a key it does not know
_update_known_only(s, key, status, detail) ==
    IF key \in KeySet(s)
    THEN LET i == FirstIndex(s, key)
             s2 == [s EXCEPT ![i] = [@ EXCEPT !.status = status,
                                              !.detail = IF detail # <<>> THEN detail ELSE @]]
         IN  [steps |-> s2, refreshAt |-> <<s2>>]
    ELSE [steps |-> s, refreshAt |-> <<>>]

\* _update that stores the given detail even when it is empty
_update_overwrites(s, key, status, detail) ==
    IF key \in KeySet(s)
    THEN LET i == FirstIndex(s, key)
             s2 == [s EXCEPT ![i] = [@ EXCEPT !.status = status, !.detail = detail]]
         IN  [steps |-> s2, refreshAt |-> <<s2>>]
    ELSE LET s2 == Append(s, [key |-> key, label |-> key, status |-> status, detail |-> detail])
         IN  [steps |-> s2, refreshAt |-> <<s2>>]

\* _update that lets a status only advance in status_order
_update_monotonic(s, key, status, detail) ==
    IF key \in KeySet(s)
    THEN LET i == FirstIndex(s, key)
             s2 == [s EXCEPT ![i] = [@ EXCEPT !.status = IF status_order(status) >= status_order(@)
                                                         THEN status ELSE @,
                                              !.detail = IF detail # <<>> THEN detail ELSE @]]
         IN  [steps |-> s2, refreshAt |-> <<s2>>]
    ELSE LET s2 == Append(s, [key |-> key, label |-> key, status |-> status, detail |-> detail])
         IN  [steps |-> s2, refreshAt |-> <<s2>>]

\* StepTracker._update
_update(s, key, status, detail) ==
    IF key \in KeySet(s)
    THEN LET i == FirstIndex(s, key)
             s2 == [s EXCEPT ![i] = [@ EXCEPT !.status = status,
                                              !.detail = IF detail # <<>> THEN detail ELSE @]]
         IN  [steps |-> s2, refreshAt |-> <<s2>>]
    ELSE LET s2 == Append(s, [key |-> key, label |-> key, status |-> status, detail |-> detail])
         IN  [steps |-> s2, refreshAt |-> <<s2>>]

\* _maybe_refresh without the try/except
_maybe_refresh_unguarded(cb, cbRaises) ==
    IF cb # NoCb
    THEN [invoked |-> 1, propagates |-> cbRaises]
    ELSE [invoked |-> 0, propagates |-> FALSE]

\* StepTracker._maybe_refresh: how often the callback is invoked, and whether an
\* exception raised by the callback leaves the method
_maybe_refresh(cb, cbRaises) ==
    IF cb # NoCb
    THEN [invoked |-> 1, propagates |-> FALSE]
    ELSE [invoked |-> 0, propagates |-> FALSE]

StatusOfOp(op) ==
    CASE op = "start" -> "running"
      [] op = "complete" -> "done"
      [] op = "error" -> "error"
      [] op = "skip" -> "skipped"

UpdateOps == {"start", "complete", "error", "skip"}

NoTree == [root |-> "", children |-> <<>>]

NoCall == [op |-> "new", key |-> "", label |-> "", detail |-> <<>>, existed |-> FALSE,
           refreshes |-> 0, cbRaised |-> FALSE, outcome |-> "returned"]

\* The _maybe_refresh call(s) of one tracker method: r is the method's result,
\* cbRaises says whether the callback raises when it is invoked.  An exception
\* that leaves _maybe_refresh leaves the method too.
Refreshed(r, call, cbRaises) ==
    LET m == _maybe_refresh(refresh_cb, cbRaises)
        seen == IF m.invoked > 0 THEN r.refreshAt ELSE <<>>
    IN  /\ cbSeen' = seen
        /\ last' = [call EXCEPT !.refreshes = Len(seen) * m.invoked,
                                !.cbRaised = (seen # <<>> /\ cbRaises),
                                !.outcome = IF seen # <<>> /\ cbRaises /\ m.propagates
                                            THEN "raised" ELSE "returned"]

\* whether the attached callback raises when it is invoked
CallbackOutcomes == IF refresh_cb # NoCb THEN BOOLEAN ELSE {FALSE}

Insert(key) == IF key \in Range(inserted) THEN inserted ELSE Append(inserted, key)

\* a call tracker.add(key, label)
Add(key, label) ==
    \E cbRaises \in CallbackOutcomes :
    LET r == add(steps, key, label)
        call == [NoCall EXCEPT !.op = "add", !.key = key, !.label = label,
                               !.existed = (key \in KeySet(steps))]
    IN  /\ steps' = r.steps
        /\ Refreshed(r, call, cbRaises)
        /\ inserted' = Insert(key)
        /\ tree' = NoTree
        /\ UNCHANGED <<refresh_cb, initVars>>

\* a call tracker.start / complete / error / skip (key, detail)
Update(op, key, detail) ==
    \E cbRaises \in CallbackOutcomes :
    LET r == _update(steps, key, StatusOfOp(op), detail)
        call == [NoCall EXCEPT !.op = op, !.key = key, !.detail = detail,
                               !.existed = (key \in KeySet(steps))]
    IN  /\ steps' = r.steps
        /\ Refreshed(r, call, cbRaises)
        /\ inserted' = Insert(key)
        /\ tree' = NoTree
        /\ UNCHANGED <<refresh_cb, initVars>>

start(key, detail) == Update("start", key, detail)
complete(key, detail) == Update("complete", key, detail)
error(key, detail) == Update("error", key, detail)
skip(key, detail) == Update("skip", key, detail)

\* StepTracker.attach_refresh
attach_refresh(cb) ==
    /\ refresh_cb' = cb
    /\ last' = [NoCall EXCEPT !.op = "attach_refresh"]
    /\ tree' = NoTree
    /\ cbSeen' = <<>>
    /\ UNCHANGED <<steps, inserted, initVars>>

\* ------------------------------------------------------------------ render

RECURSIVE lstrip(_)
lstrip(d) == IF d # <<>> /\ Head(d) \in Whitespace THEN lstrip(Tail(d)) ELSE d
RECURSIVE rstrip(_)
rstrip(d) == IF d # <<>> /\ d[Len(d)] \in Whitespace THEN rstrip(SubSeq(d, 1, Len(d) - 1)) ELSE d
\* a strip that keeps the text as it is
strip_nothing(d) == d

\* str.strip()
strip(d) == rstrip(lstrip(d))

symbol(status) ==
    CASE status = "done" -> "[green]●[/green]"
      [] status = "pending" -> "[green dim]○[/green dim]"
      [] status = "running" -> "[cyan]○[/cyan]"
      [] status = "error" -> "[red]●[/red]"
      [] status = "skipped" -> "[yellow]○[/yellow]"
      [] OTHER -> " "

\* the line of one step: a sequence of text pieces
line(step) ==
    LET detail_text == IF step.detail # <<>> THEN strip(step.detail) ELSE <<>>
    IN  IF step.status = "pending"
        THEN IF detail_text # <<>>
             THEN <<symbol(step.status), " ", "[bright_black]", step.label, " ", "(">>
                      \o detail_text \o <<")", "[/bright_black]">>
             ELSE <<symbol(step.status), " ", "[bright_black]", step.label, "[/bright_black]">>
        ELSE IF detail_text # <<>>
             THEN <<symbol(step.status), " ", "[white]", step.label, "[/white]", " ", "[bright_black]", "(">>
                      \o detail_text \o <<")", "[/bright_black]">>
             ELSE <<symbol(step.status), " ", "[white]", step.label, "[/white]">>

\* StepTracker.render: the tree, its root and one child per tree.add
render(s) == [root |-> Title, children |-> [i \in DOMAIN s |-> line(s[i])]]

\* a call tracker.render()
Render ==
    /\ tree' = render(steps)
    /\ last' = [NoCall EXCEPT !.op = "render"]
    /\ cbSeen' = <<>>
    /\ UNCHANGED <<steps, refresh_cb, inserted, initVars>>

\* --------------------------------------------------- tracker specification

\* ------------------------------------------------------------ file trees

\* A directory's content is a function from the paths below it (non-empty
\* sequences of names) to what is there: Dir, or the content of a file.
Names == {"a", "b"}
Dir == "dir"
NewFile == "new"   \* the content of every file of the archive
OldFile == "old"   \* the content of every file that was there before the run
EmptyTree == <<>>

\* the largest number of entries of an archive, and of a directory that is
\* there before the run
MaxNodes == 3
MaxOldNodes == 2

Paths == {<<x>> : x \in Names} \cup {<<x, y>> : x \in Names, y \in Names}
            \cup {<<x, y, z>> : x \in Names, y \in Names, z \in Names}

Parents(p) == {SubSeq(p, 1, n) : n \in 1..(Len(p) - 1)}
Below(p, q) == Len(q) > Len(p) /\ SubSeq(q, 1, Len(p)) = p

\* the trees of at most n entries whose files hold `content`
Shapes(n) == {S \in SUBSET Paths : Cardinality(S) <= n /\ \A p \in S : Parents(p) \subseteq S}
Leaves(S) == {p \in S : \A q \in S : ~Below(p, q)}
Trees(n, content) ==
    UNION {{[p \in S |-> IF p \in F THEN content ELSE Dir] : F \in SUBSET Leaves(S)} : S \in Shapes(n)}

Restrict(t, S) == [p \in S |-> t[p]]
Files(t) == {p \in DOMAIN t : t[p] # Dir}
TopNames(t) == {p[1] : p \in DOMAIN t}
IsDir(t, p) == p \in DOMAIN t /\ t[p] = Dir

\* the content of the directory p of t, and a tree put below the path p
Under(t, p) ==
    [r \in {SubSeq(q, Len(p) + 1, Len(q)) : q \in {q \in DOMAIN t : Below(p, q)}} |-> t[p \o r]]
Graft(p, t) == [q \in {p \o r : r \in DOMAIN t} |-> t[SubSeq(q, Len(p) + 1, Len(q))]]

\* what a directory can hold when the writing of t into it was interrupted
Partials(t) == {Restrict(t, S) : S \in {S \in SUBSET DOMAIN t : \A p \in S : Parents(p) \subseteq S}}

\* a test for a single top-level entry that does not ask whether it is a directory
IsSingleEntry(t) == Cardinality(TopNames(t)) = 1

\* extracted_items: len(...) == 1 and extracted_items[0].is_dir()
IsSingleDir(t) == Cardinality(TopNames(t)) = 1 /\ \A n \in TopNames(t) : t[<<n>>] = Dir

\* a mkdir that fails when the directory is there (exist_ok=False)
mkdir_exclusive(t, p) ==
    LET dirs == Parents(p) \cup {q \in {p} : q # <<>>}
    IN  [ok |-> p \notin DOMAIN t /\ \A q \in dirs : q \in DOMAIN t => t[q] = Dir,
         tree |-> [q \in dirs \ DOMAIN t |-> Dir] @@ t]

\* Path.mkdir(parents=True, exist_ok=True) of the directory p: it fails when
\* p or one of its parents is a file
mkdir(t, p) ==
    LET dirs == Parents(p) \cup {q \in {p} : q # <<>>}
    IN  [ok |-> \A q \in dirs : q \in DOMAIN t => t[q] = Dir,
         tree |-> [q \in dirs \ DOMAIN t |-> Dir] @@ t]

\* a copy that refuses to write over what is there (open(dst, 'xb'))
copy2_exclusive(t, content, p) ==
    [ok |-> p \notin DOMAIN t, tree |-> IF p \in DOMAIN t THEN t ELSE (p :> content) @@ t]

\* shutil.copy2(src, p) of a file: into the directory when p is one (under
\* the name of the source, which is the last name of p), and it fails when
\* that is a directory too
copy2(t, content, p) ==
    LET q == IF IsDir(t, p) THEN Append(p, p[Len(p)]) ELSE p
    IN  [ok |-> ~IsDir(t, q), tree |-> IF IsDir(t, q) THEN t ELSE (q :> content) @@ t]

\* the body of the rglob loop for the file r of the directory item `name`
copy_sub_item(t, src, name, r) ==
    LET dest_file == <<name>> \o r
        made == mkdir(t, SubSeq(dest_file, 1, Len(dest_file) - 1))
    IN  IF made.ok THEN copy2(made.tree, src[dest_file], dest_file)
        ELSE [ok |-> FALSE, tree |-> t]

RECURSIVE copy_sub_items(_, _, _, _)
copy_sub_items(t, src, name, rs) ==
    IF rs = {} THEN t
    ELSE LET r == CHOOSE r \in rs : TRUE
         IN  copy_sub_items(copy_sub_item(t, src, name, r).tree, src, name, rs \ {r})

\* the variables of the init run are not used by the tracker alone
\* ------------------------------------------------------------ release assets

\* An asset name is a sequence of tokens; the tokens are chosen so that one
\* string is a substring (a suffix) of another exactly when its tokens are a
\* contiguous part (the end) of the other's.
ai_assistant == "claude"
ArchiveSuffix == ".zip"
\* --ai with a value that is not a key of AI_CHOICES, and no --ai
OtherAssistant == "other"
NotGiven == "not given"
NameTokens == {"spec-kit-template-", ai_assistant, ArchiveSuffix}
AssetNames == UNION {[1..n -> NameTokens] : n \in {1, 2, 3}}
MaxAssets == 2
Releases(n) == UNION {[1..k -> AssetNames] : k \in 0..n}

\* pattern = f"spec-kit-template-{ai_assistant}"
pattern == <<"spec-kit-template-", ai_assistant>>
\* pattern in name
in_name(part, name) ==
    \E k \in 0..(Len(name) - Len(part)) : SubSeq(name, k + 1, k + Len(part)) = part
\* name.endswith(suffix)
endswith(name, suffix) == Len(name) >= 1 /\ name[Len(name)] = suffix

matching_assets_unsuffixed(list) ==
    LET Test(i) == in_name(pattern, list[i])
    IN  SelectSeq([i \in 1..Len(list) |-> i], Test)

\* matching_assets: the indices of the assets the comprehension keeps, in
\* list order
matching_assets(list) ==
    LET Test(i) == in_name(pattern, list[i]) /\ endswith(list[i], ArchiveSuffix)
    IN  SelectSeq([i \in 1..Len(list) |-> i], Test)

InitIdle ==
    /\ pc = "idle"
    /\ here = FALSE
    /\ project_name = FALSE
    /\ ai_option = NotGiven
    /\ response = FALSE
    /\ no_git = FALSE
    /\ git_installed = FALSE
    /\ exc = "none"
    /\ zipExists = FALSE
    /\ projExists = FALSE
    /\ stageExists = FALSE
    /\ moveExists = FALSE
    /\ singleRoot = FALSE
    /\ live = NoTree
    /\ printed = NoTree
    /\ exitCode = "running"
    /\ phaseLog = <<>>
    /\ firstChange = <<>>
    /\ in_repo = FALSE
    /\ parentExisted = TRUE
    /\ parentExists = TRUE
    /\ gitInits = 0
    /\ failLog = {}
    /\ zipCreated = FALSE
    /\ assets = <<>>
    /\ asset = 0
    /\ cause = "none"
    /\ foreign = FALSE
    /\ console = {}
    /\ archive = EmptyTree
    /\ dest = EmptyTree
    /\ destBefore = EmptyTree
    /\ stage = EmptyTree
    /\ moved = EmptyTree
    /\ mergeTodo = {}

InitTracker ==
    /\ TrackerInit
    /\ tree = NoTree
    /\ last = NoCall
    /\ cbSeen = <<>>
    /\ inserted = <<>>
    /\ InitIdle

NextTracker ==
    \/ \E key \in Keys, label \in Labels : Add(key, label)
    \/ \E key \in Keys, detail \in Details : start(key, detail)
    \/ \E key \in Keys, detail \in Details : complete(key, detail)
    \/ \E key \in Keys, detail \in Details : error(key, detail)
    \/ \E key \in Keys, detail \in Details : skip(key, detail)
    \/ \E cb \in Callbacks \cup {NoCb} : attach_refresh(cb)
    \/ Render

SpecTracker == InitTracker /\ [][NextTracker]_vars

\* ------------------------------------------------- init: the tracker calls

\* A tracker call made by the run: <<"add", key, label>> or <<op, key, detail>>.
\* The result of a sequence of calls: the steps, and every step list
\* _maybe_refresh was called on.
RECURSIVE RunCalls(_, _)
RunCalls(s, calls) ==
    IF calls = <<>> THEN [steps |-> s, refreshAt |-> <<>>]
    ELSE LET c == Head(calls)
             r == IF c[1] = "add" THEN add(s, c[2], c[3])
                  ELSE _update(s, c[2], StatusOfOp(c[1]), c[3])
             rest == RunCalls(r.steps, Tail(calls))
         IN  [steps |-> rest.steps, refreshAt |-> r.refreshAt \o rest.refreshAt]

RECURSIVE InsertedAfter(_, _)
InsertedAfter(ins, calls) ==
    IF calls = <<>> THEN ins
    ELSE LET k == Head(calls)[2]
         IN  InsertedAfter(IF k \in Range(ins) THEN ins ELSE Append(ins, k), Tail(calls))

RECURSIVE FirstChanges(_, _)
FirstChanges(fc, calls) ==
    IF calls = <<>> THEN fc
    ELSE LET c == Head(calls)
         IN  FirstChanges(IF c[1] = "add" \/ c[2] \in Range(fc) THEN fc ELSE Append(fc, c[2]),
                          Tail(calls))

\* The run makes these tracker calls, one after the other.  The attached
\* callback is lambda: live.update(tracker.render()).
Track(calls) ==
    LET r == RunCalls(steps, calls)
        m == _maybe_refresh(refresh_cb, FALSE)
    IN  /\ steps' = r.steps
        /\ live' = IF m.invoked > 0 /\ r.refreshAt # <<>>
                   THEN render(r.refreshAt[Len(r.refreshAt)]) ELSE live
        /\ inserted' = InsertedAfter(inserted, calls)
        /\ firstChange' = FirstChanges(firstChange, calls)

NoTrack == UNCHANGED <<steps, live, inserted, firstChange>>

Phase(p) == phaseLog' = Append(phaseLog, p)

\* str(e): typer.Exit(1) is click's Exit(RuntimeError), whose args are (1,)
str(e) == IF e = "Exit" THEN <<"1">> ELSE <<e>>

\* ------------------------------------------------------------ init: a run

\* init: the warning printed for --here in a directory that is not empty
OverwriteWarning == "Template files will be merged with existing content and may overwrite existing files"

\* init: the last line of a run that succeeds
ProjectReady == "Project ready."

\* init: what is on the console when the user let the run go on in a
\* directory with this content
Confirmed(t) == IF t = EmptyTree THEN {} ELSE {OverwriteWarning}

\* an archive of one file, and one of a directory with a file in it
SomeArchives == {(<<"a">> :> NewFile), (<<"a">> :> Dir) @@ (<<"a", "b">> :> NewFile)}

\* a current directory that is empty, and one with a file in it
SomeDirectories == {EmptyTree, (<<"b">> :> OldFile)}
SomeReleases == {<< <<"spec-kit-template-", ai_assistant, ArchiveSuffix>> >>,
                 << <<"spec-kit-template-", ArchiveSuffix>> >>}

\* init when it is called: every combination of the options, with the
\* current directory (--here) or the named path, which may exist
InitRun ==
    /\ TrackerInit
    /\ tree = NoTree
    /\ last = NoCall
    /\ cbSeen = <<>>
    /\ inserted = <<>>
    /\ pc = "validate"
    /\ here \in BOOLEAN
    /\ project_name \in BOOLEAN
    /\ ai_option \in {ai_assistant, OtherAssistant, NotGiven}
    /\ no_git \in BOOLEAN
    /\ git_installed \in BOOLEAN
    /\ exc = "none"
    /\ zipExists = FALSE
    /\ projExists \in (IF here THEN {TRUE} ELSE IF project_name THEN BOOLEAN ELSE {FALSE})
    /\ stageExists = FALSE
    /\ moveExists = FALSE
    /\ singleRoot = FALSE
    /\ live = NoTree
    /\ printed = NoTree
    /\ exitCode = "running"
    /\ phaseLog = <<>>
    /\ firstChange = <<>>
    /\ in_repo \in BOOLEAN
    /\ parentExisted \in (IF projExists THEN {TRUE} ELSE BOOLEAN)
    /\ parentExists = parentExisted
    /\ gitInits = 0
    /\ failLog = {}
    /\ zipCreated = FALSE
    /\ assets \in SomeReleases
    /\ asset = 0
    /\ cause = "none"
    /\ foreign = FALSE
    /\ archive \in SomeArchives
    /\ dest \in (IF projExists THEN SomeDirectories ELSE {EmptyTree})
    /\ destBefore = dest
    /\ response \in (IF here /\ dest # EmptyTree THEN BOOLEAN ELSE {TRUE})
    /\ console = {}
    /\ stage = EmptyTree
    /\ moved = EmptyTree
    /\ mergeTodo = {}

\* the variables a step of the run leaves alone unless it says otherwise
Fixed == UNCHANGED <<tree, last, cbSeen, here, no_git, git_installed, in_repo, parentExisted, assets,
                     archive, destBefore, foreign, project_name, ai_option, response>>

\* a step that leaves the directories as they are
SameTrees == UNCHANGED <<dest, stage, moved, mergeTodo>>

\* a step that fails nothing, creates nothing and prints nothing
Quiet == UNCHANGED <<parentExists, gitInits, failLog, cause, zipCreated, asset, console>>

\* the operation `what` of the run failed, or did not
Fails(ok, what) == failLog' = IF ok THEN failLog ELSE failLog \cup {what}

\* the message of the failure for which no template was found (line 879)
NoTemplate == "No template found for AI assistant"

\* an operation of a phase raised e, or did not: the first one is kept
Raised(ok, e) == cause' = IF ok \/ cause # "none" THEN cause ELSE e

\* a validation without the test for an existing directory
validate_unchecked ==
    /\ pc = "validate"
    /\ \E chosen \in BOOLEAN, tool \in BOOLEAN :
          LET misused == (here /\ project_name) \/ (~here /\ ~project_name)
              asked == ~misused /\ here /\ dest # EmptyTree
              declined == asked /\ ~response
              invalid == \/ misused
                         \/ ai_option = OtherAssistant
                         \/ ai_option = NotGiven /\ ~chosen
                         \/ ~tool
          IN  /\ console' = IF asked THEN Confirmed(dest) ELSE console
              /\ exitCode' = CASE misused -> "1"
                               [] declined -> "0"
                               [] invalid -> "1"
                               [] OTHER -> exitCode
              /\ exc' = IF declined \/ invalid THEN "Exit" ELSE exc
              /\ pc' = IF declined \/ invalid THEN "rejected" ELSE "start"
    /\ NoTrack
    /\ Fixed
    /\ SameTrees
    /\ UNCHANGED <<parentExists, gitInits, failLog, cause, zipCreated, asset>>
    /\ UNCHANGED <<refresh_cb, zipExists, projExists, stageExists, moveExists, singleRoot,
                   printed, phaseLog>>

\* init up to the creation of the tracker: the checks of the arguments, the
\* confirmation for a directory that is not empty, the choice of the
\* assistant and the check of its tool.  typer.Exit leaves init.
validate ==
    /\ pc = "validate"
    /\ \E chosen \in BOOLEAN, tool \in BOOLEAN :
          LET misused == (here /\ project_name) \/ (~here /\ ~project_name)
              asked == ~misused /\ here /\ dest # EmptyTree
              declined == asked /\ ~response
              invalid == \/ misused
                         \/ ~here /\ projExists
                         \/ ai_option = OtherAssistant
                         \/ ai_option = NotGiven /\ ~chosen
                         \/ ~tool
          IN  /\ console' = IF asked THEN Confirmed(dest) ELSE console
              /\ exitCode' = CASE misused -> "1"
                               [] declined -> "0"
                               [] invalid -> "1"
                               [] OTHER -> exitCode
              /\ exc' = IF declined \/ invalid THEN "Exit" ELSE exc
              /\ pc' = IF declined \/ invalid THEN "rejected" ELSE "start"
    /\ NoTrack
    /\ Fixed
    /\ SameTrees
    /\ UNCHANGED <<parentExists, gitInits, failLog, cause, zipCreated, asset>>
    /\ UNCHANGED <<refresh_cb, zipExists, projExists, stageExists, moveExists, singleRoot,
                   printed, phaseLog>>

\* init: the tracker and its pre-registered steps
init_tracker ==
    /\ pc = "start"
    /\ Track(<< <<"add", "precheck", "Check required tools">>,
                <<"complete", "precheck", <<"ok">> >>,
                <<"add", "ai-select", "Select AI assistant">>,
                <<"complete", "ai-select", <<"selected_ai">> >>,
                <<"add", "fetch", "Fetch latest release">>,
                <<"add", "download", "Download template">>,
                <<"add", "extract", "Extract template">>,
                <<"add", "zip-list", "Archive contents">>,
                <<"add", "extracted-summary", "Extraction summary">>,
                <<"add", "cleanup", "Cleanup">>,
                <<"add", "git", "Initialize git repository">>,
                <<"add", "final", "Finalize">> >>)
    /\ pc' = "live"
    /\ Fixed
    /\ SameTrees
    /\ Quiet
    /\ UNCHANGED <<refresh_cb, exc, zipExists, projExists, stageExists, moveExists, singleRoot,
                   printed, exitCode, phaseLog>>

\* init: with Live(tracker.render(), ...) / tracker.attach_refresh(...)
init_live ==
    /\ pc = "live"
    /\ live' = render(steps)
    /\ refresh_cb' = "cb"
    /\ pc' = "fetch_start"
    /\ Fixed
    /\ SameTrees
    /\ Quiet
    /\ UNCHANGED <<steps, inserted, firstChange, exc, zipExists, projExists, stageExists,
                   moveExists, singleRoot, printed, exitCode, phaseLog>>

\* download_and_extract_template: tracker.start("fetch", ...)
fetch_start ==
    /\ pc = "fetch_start"
    /\ Track(<< <<"start", "fetch", <<"contacting GitHub API">> >> >>)
    /\ pc' = "get_release"
    /\ Fixed
    /\ SameTrees
    /\ Quiet
    /\ UNCHANGED <<refresh_cb, exc, zipExists, projExists, stageExists, moveExists, singleRoot,
                   printed, exitCode, phaseLog>>

\* download_template_from_github: the release metadata request.  A
\* RequestError becomes typer.Exit(1); an HTTPStatusError of raise_for_status
\* is no RequestError and leaves the function as it is.
get_release ==
    /\ pc = "get_release"
    /\ Phase("fetch")
    /\ \E outcome \in {"ok", "RequestError", "HTTPStatusError"} :
          /\ exc' = CASE outcome = "ok" -> "none"
                      [] outcome = "RequestError" -> "Exit"
                      [] OTHER -> outcome
          /\ pc' = IF outcome = "ok" THEN "match_asset" ELSE "fetch_failed"
          /\ Fails(outcome = "ok", "release")
          /\ Raised(outcome = "ok", outcome)
    /\ NoTrack
    /\ Fixed
    /\ SameTrees
    /\ UNCHANGED <<parentExists, gitInits, zipCreated, asset, console>>
    /\ UNCHANGED <<refresh_cb, zipExists, projExists, stageExists, moveExists, singleRoot,
                   printed, exitCode>>

match_asset_lenient ==
    /\ pc = "match_asset"
    /\ LET found == matching_assets(assets)
       IN  /\ asset' = IF found = <<>> THEN 0 ELSE found[1]
           /\ exc' = "none"
           /\ pc' = "download"
           /\ Fails(found # <<>>, "asset")
           /\ Raised(found # <<>>, NoTemplate)
    /\ NoTrack
    /\ Fixed
    /\ SameTrees
    /\ UNCHANGED <<parentExists, gitInits, zipCreated, console>>
    /\ UNCHANGED <<refresh_cb, zipExists, projExists, stageExists, moveExists, singleRoot,
                   printed, exitCode, phaseLog>>

\* download_template_from_github: the first asset of the assistant, or
\* typer.Exit(1) when the release has none
match_asset ==
    /\ pc = "match_asset"
    /\ LET found == matching_assets(assets)
       IN  /\ asset' = IF found = <<>> THEN 0 ELSE found[1]
           /\ exc' = IF found = <<>> THEN "Exit" ELSE "none"
           /\ pc' = IF found = <<>> THEN "fetch_failed" ELSE "download"
           /\ Fails(found # <<>>, "asset")
           /\ Raised(found # <<>>, NoTemplate)
    /\ NoTrack
    /\ Fixed
    /\ SameTrees
    /\ UNCHANGED <<parentExists, gitInits, zipCreated, console>>
    /\ UNCHANGED <<refresh_cb, zipExists, projExists, stageExists, moveExists, singleRoot,
                   printed, exitCode, phaseLog>>

\* download_template_from_github: the streamed download.  A RequestError
\* deletes the file, if it is there, and becomes typer.Exit(1); any other
\* exception leaves the function with the file as it is.
download ==
    /\ pc = "download"
    /\ Phase("download")
    /\ \E outcome \in {"ok", "RequestError", "HTTPStatusError", "OSError"}, opened \in BOOLEAN :
          /\ outcome = "ok" => opened
          /\ outcome = "HTTPStatusError" => ~opened
          /\ zipExists' = (opened /\ outcome # "RequestError")
          /\ zipCreated' = opened
          /\ Fails(outcome = "ok", "download")
          /\ Raised(outcome = "ok", outcome)
          /\ exc' = CASE outcome = "ok" -> "none"
                      [] outcome = "RequestError" -> "Exit"
                      [] OTHER -> outcome
          /\ pc' = IF outcome = "ok" THEN "fetch_done" ELSE "fetch_failed"
    /\ NoTrack
    /\ Fixed
    /\ SameTrees
    /\ UNCHANGED <<parentExists, gitInits, asset, console>>
    /\ UNCHANGED <<refresh_cb, projExists, stageExists, moveExists, singleRoot, printed, exitCode>>

\* download_and_extract_template: after the helper returned
fetch_done ==
    /\ pc = "fetch_done"
    /\ Track(<< <<"complete", "fetch", <<"release (size bytes)">> >>,
                <<"add", "download", "Download template">>,
                <<"complete", "download", <<"filename">> >> >>)
    /\ pc' = "extract_start"
    /\ Fixed
    /\ SameTrees
    /\ Quiet
    /\ UNCHANGED <<refresh_cb, exc, zipExists, projExists, stageExists, moveExists, singleRoot,
                   printed, exitCode, phaseLog>>

\* an except around the helper that records the error and does not re-raise
fetch_failed_continues ==
    /\ pc = "fetch_failed"
    /\ Track(<< <<"error", "fetch", str(exc)>> >>)
    /\ exc' = "none"
    /\ pc' = "extract_start"
    /\ Fixed
    /\ SameTrees
    /\ Quiet
    /\ UNCHANGED <<refresh_cb, zipExists, projExists, stageExists, moveExists, singleRoot,
                   printed, exitCode, phaseLog>>

\* download_and_extract_template: except Exception around the helper
fetch_failed ==
    /\ pc = "fetch_failed"
    /\ Track(<< <<"error", "fetch", str(exc)>> >>)
    /\ pc' = "init_except"
    /\ Fixed
    /\ SameTrees
    /\ Quiet
    /\ UNCHANGED <<refresh_cb, exc, zipExists, projExists, stageExists, moveExists, singleRoot,
                   printed, exitCode, phaseLog>>

\* download_and_extract_template: tracker.add("extract") / tracker.start("extract")
extract_start ==
    /\ pc = "extract_start"
    /\ Track(<< <<"add", "extract", "Extract template">>,
                <<"start", "extract", <<>> >> >>)
    /\ pc' = "mkdir"
    /\ Fixed
    /\ SameTrees
    /\ Quiet
    /\ UNCHANGED <<refresh_cb, exc, zipExists, projExists, stageExists, moveExists, singleRoot,
                   printed, exitCode, phaseLog>>

\* what another process puts at the destination path
ForeignTree == (<<"b">> :> OldFile)

\* Between init's check that the named directory does not exist and
\* project_path.mkdir another process creates a directory at that path.
other_creates_destination ==
    /\ pc = "mkdir"
    /\ ~here /\ ~projExists
    /\ foreign' = TRUE
    /\ projExists' = TRUE
    /\ parentExists' = TRUE
    /\ dest' = ForeignTree
    /\ NoTrack
    /\ UNCHANGED <<tree, last, cbSeen, here, no_git, git_installed, in_repo, parentExisted, assets,
                   archive, destBefore, project_name, ai_option, response>>
    /\ UNCHANGED <<stage, moved, mergeTodo>>
    /\ UNCHANGED <<gitInits, failLog, cause, zipCreated, asset, console>>
    /\ UNCHANGED <<pc, refresh_cb, exc, zipExists, stageExists, moveExists, singleRoot, printed,
                   exitCode, phaseLog>>

make_project_dir_exist_ok ==
    /\ pc = "mkdir"
    /\ IF here
       THEN /\ pc' = "open_zip"
            /\ UNCHANGED <<exc, projExists, parentExists, failLog, cause>>
       ELSE \E ok \in BOOLEAN :
               /\ projExists' = (projExists \/ ok)
               /\ parentExists' = (parentExists \/ ok)
               /\ Fails(ok, "mkdir")
               /\ Raised(ok, "OSError")
               /\ exc' = IF ok THEN "none" ELSE "OSError"
               /\ pc' = IF ok THEN "open_zip" ELSE "extract_failed"
    /\ NoTrack
    /\ Fixed
    /\ SameTrees
    /\ UNCHANGED <<gitInits, zipCreated, asset, console>>
    /\ UNCHANGED <<refresh_cb, zipExists, stageExists, moveExists, singleRoot, printed, exitCode,
                   phaseLog>>

\* download_and_extract_template: project_path.mkdir(parents=True) unless --here
make_project_dir ==
    /\ pc = "mkdir"
    /\ IF here
       THEN /\ pc' = "open_zip"
            /\ UNCHANGED <<exc, projExists, parentExists, failLog, cause>>
       ELSE \E ok \in BOOLEAN :
               /\ ok => ~projExists
               /\ projExists' = (projExists \/ ok)
               /\ parentExists' = (parentExists \/ ok)
               /\ Fails(ok, "mkdir")
               /\ Raised(ok, "OSError")
               /\ exc' = IF ok THEN "none" ELSE "OSError"
               /\ pc' = IF ok THEN "open_zip" ELSE "extract_failed"
    /\ NoTrack
    /\ Fixed
    /\ SameTrees
    /\ UNCHANGED <<gitInits, zipCreated, asset, console>>
    /\ UNCHANGED <<refresh_cb, zipExists, stageExists, moveExists, singleRoot, printed, exitCode,
                   phaseLog>>

\* download_and_extract_template: zipfile.ZipFile(zip_path) and the zip-list step
open_zip ==
    /\ pc = "open_zip"
    /\ \E ok \in BOOLEAN :
          /\ Fails(ok, "open")
          /\ Raised(ok, "BadZipFile")
          /\ IF ok
             THEN /\ Track(<< <<"start", "zip-list", <<>> >>,
                              <<"complete", "zip-list", <<"n entries">> >> >>)
                  /\ pc' = IF here THEN "unpack_stage" ELSE "unpack_dest"
                  /\ exc' = "none"
             ELSE /\ NoTrack
                  /\ pc' = "extract_failed"
                  /\ exc' = "BadZipFile"
    /\ Fixed
    /\ SameTrees
    /\ UNCHANGED <<parentExists, gitInits, zipCreated, asset, console>>
    /\ UNCHANGED <<refresh_cb, zipExists, projExists, stageExists, moveExists, singleRoot,
                   printed, exitCode, phaseLog>>

\* --here: TemporaryDirectory(), extractall(temp_path), the extracted-summary step
unpack_stage ==
    /\ pc = "unpack_stage"
    /\ Phase("extract")
    /\ \E ok \in BOOLEAN :
          /\ Fails(ok, "extract")
          /\ Raised(ok, "OSError")
          /\ IF ok
             THEN /\ stageExists' = TRUE
                  /\ stage' = archive
                  /\ singleRoot' = IsSingleDir(archive)
                  /\ Track(<< <<"start", "extracted-summary", <<>> >>,
                              <<"complete", "extracted-summary", <<"temp n items">> >> >>)
                  /\ pc' = "flatten_stage"
                  /\ exc' = "none"
             ELSE /\ stageExists' = FALSE
                  /\ stage' = EmptyTree
                  /\ singleRoot' = singleRoot
                  /\ NoTrack
                  /\ pc' = "extract_failed"
                  /\ exc' = "OSError"
    /\ Fixed
    /\ UNCHANGED <<parentExists, gitInits, zipCreated, asset, console, dest, moved, mergeTodo>>
    /\ UNCHANGED <<refresh_cb, zipExists, projExists, moveExists, printed, exitCode>>

\* --here: source_dir is the single top-level directory, if there is one
flatten_stage ==
    /\ pc = "flatten_stage"
    /\ IF singleRoot
       THEN /\ Phase("flatten")
            /\ Track(<< <<"add", "flatten", "Flatten nested directory">>,
                        <<"complete", "flatten", <<>> >> >>)
       ELSE /\ NoTrack
            /\ UNCHANGED phaseLog
    /\ pc' = "merge_start"
    /\ Fixed
    /\ Quiet
    /\ SameTrees
    /\ UNCHANGED <<refresh_cb, exc, zipExists, projExists, stageExists, moveExists, singleRoot,
                   printed, exitCode>>

\* the one top-level directory of a tree that is a single directory
nested_dir(t) == <<CHOOSE n \in TopNames(t) : TRUE>>

\* --here: source_dir, the directory whose items are copied
source_dir == IF singleRoot THEN Under(stage, nested_dir(stage)) ELSE stage

\* --here: for item in source_dir.iterdir()
merge_start ==
    /\ pc = "merge_start"
    /\ Phase("merge")
    /\ mergeTodo' = TopNames(source_dir)
    /\ pc' = "merge"
    /\ NoTrack
    /\ Fixed
    /\ Quiet
    /\ UNCHANGED <<dest, stage, moved>>
    /\ UNCHANGED <<refresh_cb, exc, zipExists, projExists, stageExists, moveExists, singleRoot,
                   printed, exitCode>>

\* the item `name` of src, with all that is in it
Item(src, name) == Restrict(src, {q \in DOMAIN src : q = <<name>> \/ Below(<<name>>, q)})

\* --here: the body of the copy loop for one item of source_dir: how it can
\* end, and what project_path holds then.  A directory is copied file by
\* file when its name exists in project_path, and with shutil.copytree when
\* not; a file is copied with shutil.copy2.  Each file copy can fail, and the
\* files are visited in no known order.
copy_item(t, src, name) ==
    LET item == Item(src, name)
        files == {SubSeq(q, 2, Len(q)) : q \in Files(item)}
        good == {r \in files : copy_sub_item(t, src, name, r).ok}
        file == copy2(t, src[<<name>>], <<name>>)
    IN  IF src[<<name>>] = Dir
        THEN IF <<name>> \in DOMAIN t
             THEN {[ok |-> copied = files, tree |-> copy_sub_items(t, src, name, copied)] :
                      copied \in SUBSET good}
             ELSE {[ok |-> part = item, tree |-> part @@ t] : part \in Partials(item)}
        ELSE {[ok |-> FALSE, tree |-> t]} \cup (IF file.ok THEN {file} ELSE {})

\* --here: the whole copy loop over the items `names` of src: how it can end
RECURSIVE copy_items(_, _, _)
copy_items(t, src, names) ==
    IF names = {} THEN {[ok |-> TRUE, tree |-> t]}
    ELSE LET name == CHOOSE n \in names : TRUE
         IN  UNION {IF done.ok THEN copy_items(done.tree, src, names \ {name}) ELSE {done} :
                       done \in copy_item(t, src, name)}

\* --here: one round of the copy loop
merge ==
    /\ pc = "merge"
    /\ \E name \in mergeTodo : \E done \in copy_item(dest, source_dir, name) :
          /\ dest' = done.tree
          /\ Fails(done.ok, "merge")
          /\ Raised(done.ok, "OSError")
          /\ exc' = IF done.ok THEN "none" ELSE "OSError"
          /\ pc' = IF done.ok THEN "merge" ELSE "extract_failed"
          /\ mergeTodo' = IF done.ok THEN mergeTodo \ {name} ELSE {}
          /\ stageExists' = done.ok
          /\ stage' = IF done.ok THEN stage ELSE EmptyTree
    /\ NoTrack
    /\ Fixed
    /\ UNCHANGED <<parentExists, gitInits, zipCreated, asset, console, moved>>
    /\ UNCHANGED <<refresh_cb, zipExists, projExists, moveExists, singleRoot, printed, exitCode,
                   phaseLog>>

\* --here: the end of the copy loop; the TemporaryDirectory is removed
merge_end ==
    /\ pc = "merge"
    /\ mergeTodo = {}
    /\ stageExists' = FALSE
    /\ stage' = EmptyTree
    /\ pc' = "extract_ok"
    /\ NoTrack
    /\ Fixed
    /\ Quiet
    /\ UNCHANGED <<dest, moved, mergeTodo>>
    /\ UNCHANGED <<refresh_cb, exc, zipExists, projExists, moveExists, singleRoot, printed,
                   exitCode, phaseLog>>


\* fresh directory: extractall(project_path), the extracted-summary step
unpack_dest ==
    /\ pc = "unpack_dest"
    /\ Phase("extract")
    /\ \E ok \in BOOLEAN :
          /\ Fails(ok, "extract")
          /\ Raised(ok, "OSError")
          /\ IF ok
             THEN /\ dest' = archive @@ dest
                  /\ singleRoot' = IsSingleDir(dest')
                  /\ Track(<< <<"start", "extracted-summary", <<>> >>,
                              <<"complete", "extracted-summary", <<"n top-level items">> >> >>)
                  /\ pc' = "flatten_dest"
                  /\ exc' = "none"
             ELSE /\ dest' \in {part @@ dest : part \in Partials(archive)}
                  /\ singleRoot' = singleRoot
                  /\ NoTrack
                  /\ pc' = "extract_failed"
                  /\ exc' = "OSError"
    /\ Fixed
    /\ UNCHANGED <<parentExists, gitInits, zipCreated, asset, console, stage, moved, mergeTodo>>
    /\ UNCHANGED <<refresh_cb, zipExists, projExists, stageExists, moveExists, printed, exitCode>>

\* shutil.move(src, dst) of the directory `name` with content t to
\* <project name>_temp: a rename when nothing is there; into the directory
\* when one is there, which fails when it holds the name already
move_to_temp(t, name) ==
    IF moveExists
    THEN [ok |-> <<name>> \notin DOMAIN moved,
          tree |-> (<<name>> :> Dir) @@ Graft(<<name>>, t) @@ moved]
    ELSE [ok |-> TRUE, tree |-> t]

\* fresh directory: move the single top-level directory to <name>_temp,
\* rmdir project_path, move <name>_temp to project_path
flatten_dest ==
    /\ pc = "flatten_dest"
    /\ IF singleRoot
       THEN /\ Phase("flatten")
            /\ \E failed \in {"none", "move", "rmdir", "move back"} :
                  LET to_temp == move_to_temp(Under(dest, nested_dir(dest)), nested_dir(dest)[1])
                  IN  /\ ~to_temp.ok => failed = "move"
                      /\ moveExists' = CASE failed = "move" -> moveExists
                                          [] failed = "none" -> FALSE
                                          [] OTHER -> TRUE
                      /\ moved' = CASE failed = "move" -> moved
                                     [] failed = "none" -> EmptyTree
                                     [] OTHER -> to_temp.tree
                      /\ projExists' = (failed # "move back")
                      /\ dest' = CASE failed = "move" -> dest
                                    [] failed = "none" -> to_temp.tree
                                    [] OTHER -> EmptyTree
                      /\ exc' = IF failed = "none" THEN "none" ELSE "OSError"
                      /\ Fails(failed = "none", "flatten")
                      /\ Raised(failed = "none", "OSError")
                      /\ pc' = IF failed = "none" THEN "extract_ok" ELSE "extract_failed"
                      /\ IF failed = "none"
                         THEN Track(<< <<"add", "flatten", "Flatten nested directory">>,
                                       <<"complete", "flatten", <<>> >> >>)
                         ELSE NoTrack
       ELSE /\ NoTrack
            /\ pc' = "extract_ok"
            /\ UNCHANGED <<phaseLog, moveExists, projExists, exc, failLog, cause, dest, moved>>
    /\ Fixed
    /\ UNCHANGED <<parentExists, gitInits, zipCreated, asset, console, stage, mergeTodo>>
    /\ UNCHANGED <<refresh_cb, zipExists, stageExists, singleRoot, printed, exitCode>>


\* an extraction that is tried again after it failed
extract_failed_retries ==
    /\ pc = "extract_failed"
    /\ Track(<< <<"error", "extract", str(exc)>> >>)
    /\ exc' = "none"
    /\ pc' = "open_zip"
    /\ Fixed
    /\ SameTrees
    /\ Quiet
    /\ UNCHANGED <<refresh_cb, zipExists, projExists, stageExists, moveExists, singleRoot, printed,
                   exitCode, phaseLog>>

\* an except clause that leaves the tracker as it is
extract_failed_unrecorded ==
    /\ pc = "extract_failed"
    /\ NoTrack
    /\ IF ~here /\ projExists
       THEN \E removed \in BOOLEAN :
               /\ projExists' = ~removed
               /\ dest' = IF removed THEN EmptyTree ELSE dest
               /\ exc' = IF removed THEN "Exit" ELSE "OSError"
               /\ Fails(removed, "rmtree")
               /\ UNCHANGED cause
       ELSE /\ exc' = "Exit"
            /\ UNCHANGED <<projExists, failLog, cause, dest>>
    /\ pc' = "cleanup"
    /\ Fixed
    /\ UNCHANGED <<stage, moved, mergeTodo>>
    /\ UNCHANGED <<parentExists, gitInits, zipCreated, asset, console>>
    /\ UNCHANGED <<refresh_cb, zipExists, stageExists, moveExists, singleRoot, printed, exitCode,
                   phaseLog>>

\* download_and_extract_template: except Exception around the extraction:
\* the error on the extract step, the removal of the created directory,
\* typer.Exit(1)
extract_failed ==
    /\ pc = "extract_failed"
    /\ Track(<< <<"error", "extract", str(exc)>> >>)
    /\ IF ~here /\ projExists
       THEN \E removed \in BOOLEAN :
               /\ projExists' = ~removed
               /\ dest' = IF removed THEN EmptyTree ELSE dest
               /\ exc' = IF removed THEN "Exit" ELSE "OSError"
               /\ Fails(removed, "rmtree")
               /\ UNCHANGED cause
       ELSE /\ exc' = "Exit"
            /\ UNCHANGED <<projExists, failLog, cause, dest>>
    /\ pc' = "cleanup"
    /\ Fixed
    /\ UNCHANGED <<stage, moved, mergeTodo>>
    /\ UNCHANGED <<parentExists, gitInits, zipCreated, asset, console>>
    /\ UNCHANGED <<refresh_cb, zipExists, stageExists, moveExists, singleRoot, printed, exitCode,
                   phaseLog>>

\* download_and_extract_template: else: tracker.complete("extract")
extract_ok ==
    /\ pc = "extract_ok"
    /\ Track(<< <<"complete", "extract", <<>> >> >>)
    /\ pc' = "cleanup"
    /\ Fixed
    /\ SameTrees
    /\ Quiet
    /\ UNCHANGED <<refresh_cb, exc, zipExists, projExists, stageExists, moveExists, singleRoot,
                   printed, exitCode, phaseLog>>

\* a cleanup that swallows the exception on its way out (a finally that returns)
cleanup_swallows ==
    /\ pc = "cleanup"
    /\ Phase("cleanup")
    /\ Track(<< <<"add", "cleanup", "Remove temporary archive">> >>
             \o IF zipExists THEN << <<"complete", "cleanup", <<>> >> >> ELSE <<>>)
    /\ zipExists' = FALSE
    /\ exc' = "none"
    /\ pc' = "git"
    /\ Fixed
    /\ SameTrees
    /\ Quiet
    /\ UNCHANGED <<refresh_cb, projExists, stageExists, moveExists, singleRoot, printed, exitCode>>

\* download_and_extract_template: finally: the cleanup step and the archive
cleanup ==
    /\ pc = "cleanup"
    /\ Phase("cleanup")
    /\ IF zipExists
       THEN \E unlinked \in BOOLEAN :
               /\ zipExists' = ~unlinked
               /\ exc' = IF unlinked THEN exc ELSE "OSError"
               /\ Fails(unlinked, "unlink")
               /\ UNCHANGED cause
               /\ Track(<< <<"add", "cleanup", "Remove temporary archive">> >>
                        \o IF unlinked THEN << <<"complete", "cleanup", <<>> >> >> ELSE <<>>)
       ELSE /\ Track(<< <<"add", "cleanup", "Remove temporary archive">> >>)
            /\ UNCHANGED <<zipExists, exc, failLog, cause>>
    /\ pc' = IF exc' = "none" THEN "git" ELSE "init_except"
    /\ Fixed
    /\ SameTrees
    /\ UNCHANGED <<parentExists, gitInits, zipCreated, asset, console>>
    /\ UNCHANGED <<refresh_cb, projExists, stageExists, moveExists, singleRoot, printed, exitCode>>

\* is_git_repo: git rev-parse --is-inside-work-tree in project_path; False
\* when the command fails or git is not there (FileNotFoundError)
is_git_repo == git_installed /\ in_repo

\* a git step that does not ask whether project_path is a repository already
git_step_reinitializes ==
    /\ pc = "git"
    /\ Phase("git")
    /\ IF no_git
       THEN /\ Track(<< <<"skip", "git", <<"--no-git flag">> >> >>)
            /\ UNCHANGED <<gitInits, failLog, cause>>
       ELSE IF git_installed
       THEN \E init_git_repo \in BOOLEAN :
               /\ gitInits' = gitInits + 1
               /\ Fails(init_git_repo, "git")
               /\ UNCHANGED cause
               /\ Track(<< <<"start", "git", <<>> >>,
                           IF init_git_repo
                           THEN <<"complete", "git", <<"initialized">> >>
                           ELSE <<"error", "git", <<"init failed">> >> >>)
       ELSE /\ Track(<< <<"start", "git", <<>> >>,
                        <<"skip", "git", <<"git not available">> >> >>)
            /\ UNCHANGED <<gitInits, failLog, cause>>
    /\ pc' = "final"
    /\ Fixed
    /\ SameTrees
    /\ UNCHANGED <<refresh_cb, exc, zipExists, projExists, stageExists, moveExists, singleRoot,
                   printed, exitCode>>
    /\ UNCHANGED <<parentExists, zipCreated, asset, console>>

\* init: the git step.  init_git_repo returns whether its git commands
\* succeeded.
git_step ==
    /\ pc = "git"
    /\ Phase("git")
    /\ IF no_git
       THEN /\ Track(<< <<"skip", "git", <<"--no-git flag">> >> >>)
            /\ UNCHANGED <<gitInits, failLog, cause>>
       ELSE IF is_git_repo
       THEN /\ Track(<< <<"start", "git", <<>> >>,
                        <<"complete", "git", <<"existing repo detected">> >> >>)
            /\ UNCHANGED <<gitInits, failLog, cause>>
       ELSE IF git_installed
       THEN \E init_git_repo \in BOOLEAN :
               /\ gitInits' = gitInits + 1
               /\ Fails(init_git_repo, "git")
               /\ UNCHANGED cause
               /\ Track(<< <<"start", "git", <<>> >>,
                           IF init_git_repo
                           THEN <<"complete", "git", <<"initialized">> >>
                           ELSE <<"error", "git", <<"init failed">> >> >>)
       ELSE /\ Track(<< <<"start", "git", <<>> >>,
                        <<"skip", "git", <<"git not available">> >> >>)
            /\ UNCHANGED <<gitInits, failLog, cause>>
    /\ pc' = "final"
    /\ Fixed
    /\ SameTrees
    /\ UNCHANGED <<refresh_cb, exc, zipExists, projExists, stageExists, moveExists, singleRoot,
                   printed, exitCode>>
    /\ UNCHANGED <<parentExists, zipCreated, asset, console>>


\* init: tracker.complete("final", "project ready")
finalize ==
    /\ pc = "final"
    /\ Phase("final")
    /\ Track(<< <<"complete", "final", <<"project ready">> >> >>)
    /\ pc' = "print_tree"
    /\ Fixed
    /\ SameTrees
    /\ Quiet
    /\ UNCHANGED <<refresh_cb, exc, zipExists, projExists, stageExists, moveExists, singleRoot,
                   printed, exitCode>>

\* an except in init that leaves the created directory where it is
init_except_keeps ==
    /\ pc = "init_except"
    /\ Phase("final")
    /\ Track(<< <<"error", "final", str(exc)>> >>)
    /\ exc' = "Exit"
    /\ exitCode' = "1"
    /\ pc' = "exited"
    /\ Fixed
    /\ SameTrees
    /\ Quiet
    /\ UNCHANGED <<refresh_cb, zipExists, projExists, stageExists, moveExists, singleRoot, printed>>

\* init: except Exception: the error on the final step, the removal of the
\* created directory, typer.Exit(1), which leaves the Live block and init
init_except ==
    /\ pc = "init_except"
    /\ Phase("final")
    /\ Track(<< <<"error", "final", str(exc)>> >>)
    /\ IF ~here /\ projExists
       THEN \E removed \in BOOLEAN :
               /\ projExists' = ~removed
               /\ dest' = IF removed THEN EmptyTree ELSE dest
               /\ exc' = IF removed THEN "Exit" ELSE "OSError"
               /\ Fails(removed, "rmtree again")
               /\ UNCHANGED cause
       ELSE /\ exc' = "Exit"
            /\ UNCHANGED <<projExists, failLog, cause, dest>>
    /\ exitCode' = "1"
    /\ pc' = "exited"
    /\ Fixed
    /\ UNCHANGED <<stage, moved, mergeTodo>>
    /\ UNCHANGED <<parentExists, gitInits, zipCreated, asset, console>>
    /\ UNCHANGED <<refresh_cb, zipExists, stageExists, moveExists, singleRoot, printed>>

\* init: console.print(tracker.render()) after the Live block, and the return
print_tree ==
    /\ pc = "print_tree"
    /\ printed' = render(steps)
    /\ exitCode' = "0"
    /\ pc' = "done"
    /\ NoTrack
    /\ Fixed
    /\ SameTrees
    /\ console' = console \cup {ProjectReady}
    /\ UNCHANGED <<parentExists, gitInits, failLog, cause, zipCreated, asset>>
    /\ UNCHANGED <<refresh_cb, exc, zipExists, projExists, stageExists, moveExists, singleRoot,
                   phaseLog>>

Next ==
    \/ validate
    \/ init_tracker
    \/ init_live
    \/ fetch_start
    \/ get_release
    \/ match_asset
    \/ download
    \/ fetch_done
    \/ fetch_failed
    \/ extract_start
    \/ other_creates_destination
    \/ make_project_dir
    \/ open_zip
    \/ unpack_stage
    \/ flatten_stage
    \/ merge_start
    \/ merge
    \/ merge_end
    \/ unpack_dest
    \/ flatten_dest
    \/ extract_failed
    \/ extract_ok
    \/ cleanup
    \/ git_step
    \/ finalize
    \/ init_except
    \/ print_tree

Spec == InitRun /\ [][Next]_vars

\* init with --no-git, for every archive of at most MaxNodes entries; with
\* --here in every directory of at most MaxOldNodes entries, without it next
\* to every <project name>_temp of at most MaxOldNodes entries, or none
InitFiles ==
    /\ TrackerInit
    /\ tree = NoTree
    /\ last = NoCall
    /\ cbSeen = <<>>
    /\ inserted = <<>>
    /\ pc = "validate"
    /\ here \in BOOLEAN
    /\ project_name = ~here
    /\ ai_option = ai_assistant
    /\ response = TRUE
    /\ no_git = TRUE
    /\ git_installed = FALSE
    /\ exc = "none"
    /\ zipExists = FALSE
    /\ projExists = here
    /\ stageExists = FALSE
    /\ moveExists \in (IF here THEN {FALSE} ELSE BOOLEAN)
    /\ singleRoot = FALSE
    /\ live = NoTree
    /\ printed = NoTree
    /\ exitCode = "running"
    /\ phaseLog = <<>>
    /\ firstChange = <<>>
    /\ in_repo = FALSE
    /\ parentExisted = TRUE
    /\ parentExists = TRUE
    /\ gitInits = 0
    /\ failLog = {}
    /\ zipCreated = FALSE
    /\ assets = << <<"spec-kit-template-", ai_assistant, ArchiveSuffix>> >>
    /\ asset = 0
    /\ cause = "none"
    /\ foreign = FALSE
    /\ archive \in Trees(MaxNodes, NewFile)
    /\ dest \in (IF here THEN Trees(MaxOldNodes, OldFile) ELSE {EmptyTree})
    /\ destBefore = dest
    /\ console = {}
    /\ stage = EmptyTree
    /\ moved \in (IF moveExists THEN Trees(MaxOldNodes, OldFile) ELSE {EmptyTree})
    /\ mergeTodo = {}

SpecFiles == InitFiles /\ [][Next]_vars

\* the run over every release of at most MaxAssets assets, with one wrapped
\* archive and nothing at the destination
InitAssets ==
    /\ TrackerInit
    /\ tree = NoTree
    /\ last = NoCall
    /\ cbSeen = <<>>
    /\ inserted = <<>>
    /\ pc = "validate"
    /\ here \in BOOLEAN
    /\ project_name = ~here
    /\ ai_option = ai_assistant
    /\ response = TRUE
    /\ no_git = TRUE
    /\ git_installed = FALSE
    /\ exc = "none"
    /\ zipExists = FALSE
    /\ projExists = here
    /\ stageExists = FALSE
    /\ moveExists = FALSE
    /\ singleRoot = FALSE
    /\ live = NoTree
    /\ printed = NoTree
    /\ exitCode = "running"
    /\ phaseLog = <<>>
    /\ firstChange = <<>>
    /\ in_repo = FALSE
    /\ parentExisted = TRUE
    /\ parentExists = TRUE
    /\ gitInits = 0
    /\ failLog = {}
    /\ zipCreated = FALSE
    /\ assets \in Releases(MaxAssets)
    /\ asset = 0
    /\ cause = "none"
    /\ foreign = FALSE
    /\ archive = (<<"a">> :> Dir) @@ (<<"a", "b">> :> NewFile)
    /\ dest = EmptyTree
    /\ destBefore = dest
    /\ console = {}
    /\ stage = EmptyTree
    /\ moved = EmptyTree
    /\ mergeTodo = {}

SpecAssets == InitAssets /\ [][Next]_vars

\* ------------------------------------------------------------------ claims

\* the status each operation sets
Sets == [start |-> "running", complete |-> "done", error |-> "error", skip |-> "skipped"]

Index(s, key) == CHOOSE i \in DOMAIN s : s[i].key = key

\* C1: the order of the steps is the order in which the keys were first
\* inserted (by add or by an update that synthesized the step); an update of
\* a key never moves it.
C1_OrderIsFirstInsertion == KeySeq(steps) = inserted

\* the first inserted step was updated after a second one was inserted
C1_Witness ==
    /\ Len(steps) = 2
    /\ last.op \in UpdateOps
    /\ last.existed
    /\ last.key = steps[1].key

\* C2: no two steps have the same key.
C2_KeysUnique == \A i, j \in DOMAIN steps : i # j => steps[i].key # steps[j].key

\* add was called on a key that is there, next to another step
C2_Witness ==
    /\ last.op = "add"
    /\ last.existed
    /\ Len(steps) = 2

\* C3: add on an existing key changes nothing (the step keeps label, status
\* and detail, the sequence is as it was); add on a new key appends a pending
\* step with that label and an empty detail.
C3_AddFrame ==
    [][last'.op = "add" =>
         /\ refresh_cb' = refresh_cb
         /\ IF last'.existed
            THEN steps' = steps
            ELSE steps' = Append(steps, [key |-> last'.key, label |-> last'.label,
                                         status |-> "pending", detail |-> <<>>])]_vars

\* add(key, label) on a step that is not pending, has a detail and another label
C3_Witness ==
    /\ last.op = "add"
    /\ last.existed
    /\ \E i \in DOMAIN steps :
          /\ steps[i].key = last.key
          /\ steps[i].status = "error"
          /\ steps[i].detail # <<>>
          /\ steps[i].label # last.label

\* C4: an update of an unknown key returns normally and appends exactly one
\* step: label = key, the status of the operation, the given detail; the steps
\* that were there are unchanged.
C4_UnknownKeySynthesizes ==
    [][(last'.op \in UpdateOps /\ ~last'.existed) =>
         /\ last'.outcome = "returned"
         /\ steps' = Append(steps, [key |-> last'.key, label |-> last'.key,
                                    status |-> Sets[last'.op], detail |-> last'.detail])]_vars

\* a step was synthesized, with a detail, behind an existing step
C4_Witness ==
    /\ last.op \in UpdateOps
    /\ ~last.existed
    /\ last.detail # <<>>
    /\ Len(steps) = 2
    /\ steps[2].key = last.key

\* C5: an update of an existing key stores the given detail iff it is not
\* empty; with an empty detail the stored one stays, and the status changes
\* all the same.
C5_DetailOverwrittenIffNonEmpty ==
    [][(last'.op \in UpdateOps /\ last'.existed) =>
         LET i == Index(steps, last'.key)
         IN  /\ Len(steps') = Len(steps)
             /\ steps'[i].detail = IF last'.detail # <<>> THEN last'.detail ELSE steps[i].detail
             /\ steps'[i].status = Sets[last'.op]]_vars

\* an update with an empty detail of a step that has a detail
C5_Witness ==
    /\ last.op \in UpdateOps
    /\ last.existed
    /\ last.detail = <<>>
    /\ \E i \in DOMAIN steps :
          steps[i].key = last.key /\ steps[i].detail # <<>> /\ steps[i].status = Sets[last.op]

\* C6: start/complete/error/skip of an existing step sets its status to
\* running/done/error/skipped whatever its status was, and changes the status
\* of no other step.
C6_StatusUnrestricted ==
    [][(last'.op \in UpdateOps /\ last'.existed) =>
         LET i == Index(steps, last'.key)
         IN  /\ Len(steps') = Len(steps)
             /\ steps'[i].status = Sets[last'.op]
             /\ steps'[i].key = steps[i].key
             /\ \A j \in DOMAIN steps : j # i => steps'[j] = steps[j]]_vars

\* an existing step was set back to running next to a done step that stayed
C6_Witness ==
    /\ last.op = "start"
    /\ last.existed
    /\ Len(steps) = 2
    /\ \E i, j \in DOMAIN steps :
          /\ steps[i].key = last.key /\ steps[i].status = "running"
          /\ j # i /\ steps[j].status = "done"

Mutators == UpdateOps \cup {"add"}
Mutated == last.op \in UpdateOps \/ (last.op = "add" /\ ~last.existed)

\* C7: with a callback attached, a tracker call that mutates (an inserting
\* add, any start/complete/error/skip) invokes it exactly once, on the state
\* the call produced; a call that changes nothing, or a call with no
\* callback attached, invokes nothing.
C7_RefreshOncePerMutation ==
    last.op \in Mutators =>
        IF Mutated /\ refresh_cb # NoCb
        THEN last.refreshes = 1 /\ cbSeen = <<steps>>
        ELSE last.refreshes = 0 /\ cbSeen = <<>>

\* an update of an existing step with a callback attached: one invocation,
\* which saw the updated steps
C7_Witness ==
    /\ last.op = "complete"
    /\ last.existed
    /\ refresh_cb # NoCb
    /\ last.refreshes = 1
    /\ cbSeen = <<steps>>
    /\ StepOf(steps, last.key).status = "done"

\* C8: when the callback raises, the tracker call returns normally and its
\* mutation is in place.
C8_CallbackFailureSwallowed ==
    last.cbRaised =>
        /\ last.outcome = "returned"
        /\ last.key \in KeySet(steps)
        /\ last.op \in UpdateOps =>
              LET st == StepOf(steps, last.key)
              IN  /\ st.status = Sets[last.op]
                  /\ last.detail # <<>> => st.detail = last.detail
        /\ (last.op = "add") =>
              LET st == StepOf(steps, last.key)
              IN  st.status = "pending" /\ st.label = last.label

\* the callback raised during an update with a detail
C8_Witness ==
    /\ last.cbRaised
    /\ last.op = "error"
    /\ last.detail # <<>>

\* the five glyphs
Glyph == [done |-> "[green]●[/green]", pending |-> "[green dim]○[/green dim]",
          running |-> "[cyan]○[/cyan]", error |-> "[red]●[/red]",
          skipped |-> "[yellow]○[/yellow]"]

Contains(l, part) == \E k \in 0..(Len(l) - Len(part)) : SubSeq(l, k + 1, k + Len(part)) = part
Visible(d) == \E k \in DOMAIN d : d[k] \notin Whitespace
\* d without its leading and trailing whitespace
Trimmed(d) ==
    IF ~Visible(d) THEN <<>>
    ELSE LET lo == CHOOSE k \in DOMAIN d : d[k] \notin Whitespace /\ \A j \in 1..(k-1) : d[j] \in Whitespace
             hi == CHOOSE k \in DOMAIN d : d[k] \notin Whitespace /\ \A j \in (k+1)..Len(d) : d[j] \in Whitespace
         IN  SubSeq(d, lo, hi)

PhaseRank == [fetch |-> 1, download |-> 2, extract |-> 3, flatten |-> 4, merge |-> 5,
              cleanup |-> 6, git |-> 7, final |-> 8]
StepRank == [fetch |-> 1, download |-> 2, extract |-> 3, flatten |-> 4, cleanup |-> 6,
             git |-> 7, final |-> 8]

\* C10: the work of the phases is done in the order fetch, download, extract,
\* flatten, merge/copy, cleanup, git-init, final, each at most once, and the
\* steps of the phases receive their first status change in that order too.
C10_PhasesForwardOnly ==
    /\ \A i, j \in DOMAIN phaseLog :
          i < j => PhaseRank[phaseLog[i]] < PhaseRank[phaseLog[j]]
    /\ \A i, j \in DOMAIN firstChange :
          (i < j /\ firstChange[i] \in DOMAIN StepRank /\ firstChange[j] \in DOMAIN StepRank)
              => StepRank[firstChange[i]] < StepRank[firstChange[j]]

\* a --here run that went through all eight phases and ended well
C10_Witness ==
    /\ exitCode = "0"
    /\ phaseLog = <<"fetch", "download", "extract", "flatten", "merge", "cleanup", "git", "final">>
    /\ DOMAIN StepRank \subseteq Range(firstChange)

\* the status of a step of the run, or "none" when the tracker has no such step
StatusIn(s, key) == IF key \in KeySet(s) THEN StepOf(s, key).status ELSE "none"
StatusOf(key) == StatusIn(steps, key)

\* the run is over: init returned ("done") or left with an exception ("exited")
Ended == pc \in {"done", "exited"}

\* the steps whose error ends the run: fetch (which also takes the failures
\* of the download) and extract
Aborted(s) == StatusIn(s, "fetch") = "error" \/ StatusIn(s, "extract") = "error"

\* C11 as it was stated: once the step of fetch, download, extract or git-init
\* is marked error, the final step never becomes done and the run does not
\* end as a success.
C11_Original ==
    (\E k \in {"fetch", "download", "extract", "git"} : StatusOf(k) = "error")
        => StatusOf("final") # "done" /\ exitCode # "0"

\* C11: once the fetch step or the extract step is marked error it stays so,
\* no phase other than cleanup does its work afterwards (the final step is
\* only marked error), git init is not called, the final step never becomes
\* done and the run can only end with exit code 1; an error of the git step
\* alone does not end the run: the final step becomes done and the exit code
\* is 0.
C11_FailedPhaseEndsRun ==
    [][ /\ Aborted(steps) =>
              /\ Aborted(steps')
              /\ \/ phaseLog' = phaseLog
                 \/ phaseLog' = Append(phaseLog, "cleanup")
                 \/ phaseLog' = Append(phaseLog, "final") /\ StatusIn(steps', "final") = "error"
        /\ Aborted(steps') =>
              /\ StatusIn(steps', "final") # "done"
              /\ gitInits' = 0
              /\ exitCode' \in {"running", "1"}
              /\ pc' \in {"done", "exited"} => exitCode' = "1"
        /\ (StatusIn(steps', "git") = "error" /\ pc' = "done") =>
              /\ StatusIn(steps', "final") = "done"
              /\ exitCode' = "0"
      ]_vars

\* a run whose extraction failed: the archive was cleaned up and init left
\* with exit code 1, the final step marked error
C11_Witness ==
    /\ StatusOf("extract") = "error"
    /\ phaseLog[Len(phaseLog) - 1] = "cleanup"
    /\ StatusOf("final") = "error"
    /\ exitCode = "1"

\* the git step is behind the run
AfterGit == pc \in {"final", "print_tree", "done"}

\* C12 as it was stated: when git is not installed, when --no-git is given or
\* when the destination is in a repository already, the git step ends
\* skipped and git init is not run.
C12_Original ==
    (AfterGit /\ (~git_installed \/ no_git \/ in_repo))
        => StatusOf("git") = "skipped" /\ gitInits = 0

\* C12: with --no-git the git step ends skipped with "--no-git flag"; without
\* it and without a git executable it ends skipped with "git not available";
\* without --no-git, with git installed and the destination inside a
\* repository it ends done with "existing repo detected"; in none of the three
\* cases git init is run, and the three details are pairwise distinct.
C12_GitNotRun ==
    /\ Cardinality({"--no-git flag", "git not available", "existing repo detected"}) = 3
    /\ AfterGit =>
          /\ no_git =>
                /\ StatusOf("git") = "skipped"
                /\ StepOf(steps, "git").detail = <<"--no-git flag">>
                /\ gitInits = 0
          /\ (~no_git /\ ~git_installed) =>
                /\ StatusOf("git") = "skipped"
                /\ StepOf(steps, "git").detail = <<"git not available">>
                /\ gitInits = 0
          /\ (~no_git /\ git_installed /\ in_repo) =>
                /\ StatusOf("git") = "done"
                /\ StepOf(steps, "git").detail = <<"existing repo detected">>
                /\ gitInits = 0

\* a finished run in an existing repository: the git step is done, git init
\* was not run
C12_Witness ==
    /\ pc = "done"
    /\ ~no_git /\ git_installed /\ in_repo
    /\ StatusOf("git") = "done"
    /\ gitInits = 0

\* the operations of fetch, download and extract (with flatten and merge)
MaterializeOps == {"release", "asset", "download", "mkdir", "open", "extract", "flatten", "merge"}

\* C13: git init is run at most once, and only when the fetch, download and
\* extract steps are done, none of their operations failed, the cleanup phase
\* was executed and the archive is gone.
C13_GitInitAfterMaterialization ==
    gitInits > 0 =>
        /\ gitInits = 1
        /\ StatusOf("fetch") = "done"
        /\ StatusOf("download") = "done"
        /\ StatusOf("extract") = "done"
        /\ failLog \cap MaterializeOps = {}
        /\ "cleanup" \in Range(phaseLog)
        /\ StatusOf("cleanup") = "done"
        /\ ~zipExists

\* a finished run in which git init was run
C13_Witness ==
    /\ gitInits = 1
    /\ pc = "done"
    /\ StatusOf("git") = "done"

\* C14: when the run is over and it had created the archive file, the file
\* is gone (a run whose attempt to delete the file itself failed is left
\* aside).
C14_ArchiveRemoved ==
    (Ended /\ zipCreated /\ "unlink" \notin failLog) => ~zipExists

\* the removals the run attempts
Removals == {"rmtree", "rmtree again", "unlink"}

\* C15: when the run is over (and none of its removals failed), neither the
\* staging directory of --here nor <project name>_temp of the fresh-directory
\* flatten exists.
C15_NoTemporaryDirectory ==
    (Ended /\ failLog \cap Removals = {}) => ~stageExists /\ ~moveExists

\* the operations of the extraction in a fresh directory
FreshOps == {"mkdir", "open", "extract", "flatten"}

C17_RolledBack ==
    (Ended /\ ~here /\ exitCode = "1" /\ failLog \cap Removals = {})
        => ~projExists /\ parentExists = parentExisted

\* the operations of the extraction with --here
HereOps == {"open", "extract", "merge"}

\* C18: after a --here run in which an operation of the extraction failed
\* (and no removal did), project_path is still there and the console shows a
\* message of the failed run: one that is neither the warning printed before
\* the run nor the last line of a successful run.
C18_NoRollbackButWarning ==
    (Ended /\ here /\ failLog \cap HereOps # {} /\ failLog \cap Removals = {})
        => /\ projExists
           /\ \E msg \in console : msg \notin {OverwriteWarning, ProjectReady}

\* the effective archive tree: the content of the single top-level
\* directory when the archive is one, the whole tree when not
Effective(t) == IF IsSingleDir(t) THEN Under(t, nested_dir(t)) ELSE t

\* C19: with --here, a file that was in project_path before the run and whose
\* path is not the path of a file of the effective archive tree is there
\* with its content, at every point of the run and after it.
C19_UnrelatedFilesKept ==
    here => \A p \in Files(destBefore) :
               p \notin Files(Effective(archive)) => p \in DOMAIN dest /\ dest[p] = destBefore[p]

\* C20: after a successful run whose archive is a single top-level
\* directory, the flatten step is done, project_path holds at its top level
\* every name the directory holds, and it does not hold the directory itself
\* (a name that was in project_path before the run, or that the directory
\* holds too, is no wrapper).
C20_Flattened ==
    (pc = "done" /\ IsSingleDir(archive)) =>
        /\ StatusOf("flatten") = "done"
        /\ TopNames(Effective(archive)) \subseteq TopNames(dest)
        /\ nested_dir(archive) \in DOMAIN dest =>
              \/ nested_dir(archive) \in DOMAIN destBefore
              \/ nested_dir(archive)[1] \in TopNames(Effective(archive))

\* the archive unpacks to two or more top-level entries, or to one file
NotWrapped(t) ==
    \/ Cardinality(TopNames(t)) >= 2
    \/ \E n \in Names : TopNames(t) = {n} /\ t[<<n>>] # Dir

\* C21: after a successful run whose archive unpacks to two or more
\* top-level entries, or to a single file, the tracker has no flatten step and
\* no flatten was done; a fresh destination holds exactly the archive's tree;
\* with --here the top-level names of the destination are those it had plus
\* those of the archive, and an archive entry whose name was not there before
\* is in the destination as it is in the archive.
C21_NotFlattened ==
    (pc = "done" /\ NotWrapped(archive)) =>
        /\ "flatten" \notin KeySet(steps)
        /\ "flatten" \notin Range(phaseLog)
        /\ (~here) => dest = archive
        /\ here =>
              /\ TopNames(dest) = TopNames(destBefore) \cup TopNames(archive)
              /\ \A n \in TopNames(archive) \ TopNames(destBefore) :
                    Item(dest, n) = Item(archive, n)

\* a successful --here run with an archive of a file and a directory, one of
\* them new to the destination
C21_Witness ==
    /\ pc = "done" /\ here
    /\ Cardinality(TopNames(archive)) = 2
    /\ \E n \in TopNames(archive) : archive[<<n>>] = Dir
    /\ \E n \in TopNames(archive) : archive[<<n>>] # Dir
    /\ Cardinality(TopNames(destBefore)) = 1
    /\ "flatten" \notin KeySet(steps)
    /\ TopNames(archive) \subseteq TopNames(dest)

\* C22: after a successful fresh-directory run project_path holds exactly
\* the effective archive tree.
C22_ExactTree ==
    (pc = "done" /\ ~here) => dest = Effective(archive)

\* the files of the effective archive tree at whose path the destination
\* held a file before the run
Clashing == Files(Effective(archive)) \cap Files(destBefore)

\* C23: with --here, a file of the effective archive tree at whose path the
\* destination held a file stays a file there throughout; when the copy loop
\* comes to it the copy does not fail on what is at the destination; and
\* after a successful run the file has the archive's content.
C23_ExistingFileOverwritten ==
    here => \A p \in Clashing :
        /\ p \in Files(dest)
        /\ (pc = "merge" /\ p[1] \in mergeTodo) =>
              IF Len(p) = 1 THEN copy2(dest, source_dir[p], p).ok
              ELSE copy_sub_item(dest, source_dir, p[1], Tail(p)).ok
        /\ pc = "done" => dest[p] = NewFile

\* a successful --here run that wrote over a file inside a directory that
\* was there before
C23_Witness ==
    /\ pc = "done" /\ here
    /\ \E p \in Clashing : Len(p) = 2 /\ destBefore[p] = OldFile /\ dest[p] = NewFile

\* C24: after a successful --here run every file of the effective archive
\* tree is in the destination at its path, with the archive's content.
C24_AllFilesInPlace ==
    (pc = "done" /\ here) =>
        \A p \in Files(Effective(archive)) : p \in DOMAIN dest /\ dest[p] = NewFile

\* the release lists no asset of the assistant
NoAssetMatches ==
    \A i \in DOMAIN assets : ~(in_name(pattern, assets[i]) /\ endswith(assets[i], ArchiveSuffix))

\* C25: when the release lists no matching asset the run fails before any
\* download: the download is never requested, no archive file is created or
\* left, no asset is resolved, the destination directory and its parents are
\* not created, the download step stays pending, the run does not succeed,
\* and from the handler on the fetch step is in error.
C25_NoAssetNoDownload ==
    /\ (NoAssetMatches /\ "release" \notin failLog
           /\ pc \notin {"validate", "rejected", "start", "live", "fetch_start", "get_release", "match_asset"}) =>
          "asset" \in failLog
    /\ "asset" \in failLog =>
          /\ NoAssetMatches
          /\ asset = 0
          /\ "download" \notin Range(phaseLog)
          /\ ~zipCreated /\ ~zipExists
          /\ projExists = here
          /\ parentExists = parentExisted
          /\ dest = destBefore
          /\ StatusOf("download") = "pending"
          /\ pc \in {"fetch_failed", "init_except", "exited"}
          /\ pc # "fetch_failed" => StatusOf("fetch") = "error"
          /\ pc = "exited" => exitCode = "1"

\* a run that ended because no asset matched
C25_Witness == pc = "exited" /\ "asset" \in failLog /\ NoAssetMatches /\ assets # <<>>

\* the name contains the pattern of the assistant and ends with the suffix
Matches(name) == in_name(pattern, name) /\ endswith(name, ArchiveSuffix)

\* the run is past the choice of the asset
AssetChosen ==
    /\ pc \notin {"validate", "rejected", "start", "live", "fetch_start", "get_release", "match_asset"}
    /\ "release" \notin failLog

\* C26: the resolved asset is the first asset of the list, in list order,
\* whose name contains the pattern and ends with the suffix; an asset that
\* fails either test is never resolved; one is resolved exactly when some
\* asset passes both tests; and the download is requested only for it.
C26_FirstMatchingAsset ==
    /\ asset # 0 =>
          /\ asset \in DOMAIN assets
          /\ Matches(assets[asset])
          /\ \A j \in 1..(asset - 1) : ~Matches(assets[j])
    /\ AssetChosen => (asset = 0 <=> \A i \in DOMAIN assets : ~Matches(assets[i]))
    /\ "download" \in Range(phaseLog) => asset # 0

\* a successful run whose release lists, before the resolved asset, an asset
\* with the pattern in its name that lacks the suffix
C26_Witness ==
    /\ pc = "done"
    /\ asset = 2
    /\ in_name(pattern, assets[1]) /\ ~endswith(assets[1], ArchiveSuffix)

\* C27: once the download has failed after the archive file was opened for
\* writing, the file is gone from the moment the failure leaves the helper.
C27_PartialFileDeleted ==
    ("download" \in failLog /\ zipCreated) => ~zipExists

\* the operations of the extraction phase that can fail
ExtractOps == {"mkdir", "open", "extract", "merge", "flatten"}

\* the step is in error with the message of the phase's failure as its detail
ErrorWithCause(key) ==
    /\ StatusOf(key) = "error"
    /\ StepOf(steps, key).detail = <<cause>>

\* C28: at the end of a run in which the release request or the asset
\* selection, the download, or the extraction failed, the step of that phase
\* (fetch, download, extract) is in error and its detail is the message of
\* the failure.
C28_FailureOnOwnStep ==
    Ended =>
        /\ failLog \cap {"release", "asset"} # {} => ErrorWithCause("fetch")
        /\ "download" \in failLog => ErrorWithCause("download")
        /\ failLog \cap ExtractOps # {} => ErrorWithCause("extract")

\* C29: when a run has failed, the exit code is not zero, and the step tree
\* as it is at the end has been printed after the live display, with the
\* step of the phase that failed, if one did, in error.
C29_FailedRunPrintsTree ==
    pc = "exited" =>
        /\ exitCode = "1"
        /\ printed = render(steps)
        /\ cause # "none" => Aborted(steps)

\* C30: when the extraction failed and, while that failure was handled, the
\* removal of the destination or of the archive failed too, the run ends as
\* it does for the extraction failure alone: the extract step is in error
\* with the message of the extraction failure, the exception init's handler
\* records on the final step is the typer.Exit(1) of the extraction failure,
\* and that is what the run leaves with.
C30_CleanupFailureSwallowed ==
    (pc = "exited" /\ failLog \cap ExtractOps # {} /\ failLog \cap Removals # {}) =>
        /\ ErrorWithCause("extract")
        /\ StepOf(steps, "final").detail = str("Exit")
        /\ exc = "Exit"

\* C31: without --here the archive is opened and unpacked only when the run
\* itself has made the destination directory, which is empty then; when the
\* path has come to exist before project_path.mkdir, the creation fails, the
\* run does not succeed and nothing of the archive gets into the directory.
C31_UnpackedIntoOwnDirectory ==
    ~here =>
        /\ pc \in {"open_zip", "unpack_dest"} => (~foreign /\ projExists /\ dest = EmptyTree)
        /\ foreign =>
              /\ pc # "mkdir" => "mkdir" \in failLog
              /\ pc \in {"mkdir", "extract_failed", "cleanup", "init_except", "exited"}
              /\ StatusOf("zip-list") = "pending"
              /\ \A p \in DOMAIN dest : dest[p] # NewFile
              /\ pc = "exited" => exitCode = "1"

\* a run that failed because the destination had come to exist
C31_Witness == ~here /\ foreign /\ pc = "exited" /\ "mkdir" \in failLog

\* C33: without --here, a destination directory that another process made
\* before the run's creation step is, with its content, still there whenever
\* the run has got past that step.
C33_ForeignDirectoryKept ==
    (~here /\ foreign) => (projExists /\ dest = ForeignTree)

\* the archive is a wrapping root that holds exactly one directory
DoublyWrapped(t) == IsSingleDir(t) /\ IsSingleDir(Effective(t))

\* the number of steps with this key
Count(key) == Cardinality({i \in DOMAIN steps : steps[i].key = key})

\* C32: after a successful run whose archive is a wrapping root that holds
\* exactly one directory, that inner directory is a directory at the top
\* level of the destination with its files inside it, the wrapping root is
\* not in the destination (unless it has the inner directory's name or was
\* there before), and there is one flatten step.
C32_OneLevelRemoved ==
    (pc = "done" /\ DoublyWrapped(archive)) =>
        LET inner == nested_dir(Effective(archive))
            root == nested_dir(archive)
        IN  /\ IsDir(dest, inner)
            /\ \A p \in Files(Under(Effective(archive), inner)) : inner \o p \in DOMAIN dest
            /\ root \in DOMAIN dest => (root = inner \/ root \in DOMAIN destBefore)
            /\ Count("flatten") = 1

\* C34: without --here, no step of the run changes a directory
\* <project name>_temp that is next to the destination: it stays there and
\* keeps its content.
C34_SiblingUnchanged ==
    [][(~here /\ moveExists) => (moveExists' /\ moved' = moved)]_vars

\* C35: when the run is over, however it ended, no step of the tracker is
\* in status running.
C35_NoStepLeftRunning ==
    Ended => \A i \in DOMAIN steps : steps[i].status # "running"

\* a run that ended by a failure of the extraction, whose step had been
\* started
C35_Witness ==
    /\ pc = "exited"
    /\ failLog \cap ExtractOps # {}
    /\ StatusOf("extract") = "error"
    /\ StatusOf("fetch") = "done"

\* C36: a successful run into a destination that was empty (--here) or that
\* the run created (without --here) ends with one and the same tree in
\* either mode, the effective archive tree: same files, same directories,
\* the empty ones included, same contents.
C36_ModesAgreeOnEmpty ==
    (pc = "done" /\ destBefore = EmptyTree) =>
        /\ DOMAIN dest = DOMAIN Effective(archive)
        /\ \A p \in DOMAIN dest : dest[p] = Effective(archive)[p]

\* C37: after a successful --here run, the copy loop run once more with the
\* same archive on what the destination holds now can succeed, and whenever
\* it succeeds the destination is as it was before this second merge.
C37_MergeIdempotent ==
    (pc = "done" /\ here) =>
        LET source == Effective(archive)
            again == copy_items(dest, source, TopNames(source))
        IN  /\ \E done \in again : done.ok
            /\ \A done \in again : done.ok => done.tree = dest

\* a successful --here run that merged a directory with a file into a
\* directory that was there, and wrote over a file
C37_Witness ==
    /\ pc = "done" /\ here
    /\ \E p \in Files(Effective(archive)) : Len(p) = 2 /\ <<p[1]>> \in DOMAIN destBefore
    /\ \E p \in Files(Effective(archive)) : p \in Files(destBefore)

\* the steps of the phases in the order in which the phases run
PhaseSteps == <<"fetch", "download", "extract", "flatten", "cleanup", "git", "final">>

\* C38: in the tree printed at the end of a successful run the steps of the
\* phases that are in the tracker come in the order in which the phases run:
\* fetch, download, extract, flatten, cleanup, git, final.
C38_DisplayOrder ==
    pc = "done" =>
        /\ printed = render(steps)
        /\ \A i, j \in DOMAIN PhaseSteps :
              (i < j /\ PhaseSteps[i] \in KeySet(steps) /\ PhaseSteps[j] \in KeySet(steps)) =>
                  FirstIndex(steps, PhaseSteps[i]) < FirstIndex(steps, PhaseSteps[j])

\* the invocations init rejects, and the answer that ends it
Misused == (here /\ project_name) \/ (~here /\ ~project_name)
Declines == ~Misused /\ here /\ dest # EmptyTree /\ ~response
AlreadyExists == ~here /\ project_name /\ projExists
UnknownAssistant == ai_option = OtherAssistant

\* C39: the step of init that validates the invocation ends the run with
\* exit code 1 when a project name and --here are both given or neither is,
\* when the named directory exists, or when --ai names no known assistant,
\* and with exit code 0 when the user declines to continue in a directory
\* that is not empty (the question comes before the last two tests); and
\* whenever it ends the run there is no tracker step, no request has been
\* made, and no directory or file has been created, changed or removed.
C39_RejectedBeforeAnyChange ==
    [][pc = "validate" =>
          /\ Misused => (pc' = "rejected" /\ exitCode' = "1")
          /\ Declines => (pc' = "rejected" /\ exitCode' = "0")
          /\ (~Declines /\ (AlreadyExists \/ UnknownAssistant)) =>
                (pc' = "rejected" /\ exitCode' = "1")
          /\ pc' = "rejected" =>
                /\ exitCode' \in {"0", "1"}
                /\ steps' = <<>> /\ phaseLog' = <<>> /\ failLog' = {}
                /\ UNCHANGED <<dest, projExists, parentExists, zipExists, zipCreated,
                               stageExists, moveExists, moved, gitInits>>]_vars

\* a run that was rejected because the named directory, which holds a file,
\* exists
C39_Witness ==
    /\ pc = "rejected"
    /\ AlreadyExists /\ ~UnknownAssistant /\ dest # EmptyTree
    /\ exitCode = "1"

====
